---- MODULE Spec2Model ----
(***************************************************************************)
(* Model of mysqlbackup.py: the main flow (argument post-processing,       *)
(* preflight, command building, execution, cleanup) and the daemon thread  *)
(* check_hung that polls the server's process list while the backup runs.  *)
(*                                                                         *)
(* A shell command is a sequence of tokens (strings); an f-string that     *)
(* joins pieces with blanks is the concatenation of their token lists.     *)
(***************************************************************************)
EXTENDS Integers, Sequences, FiniteSets, TLC

VARIABLES
    args,         \* the argparse namespace, shared by the main flow and the watcher
    platform,     \* platform.system()
    fs,           \* the files the program touches
    pc,           \* position of the main thread
    exited,       \* the process has ended
    exitCode,     \* its exit status (meaningful once exited)
    log,          \* the messages recorded by logger (kill results are kept in kill_rc)
    passed,       \* the preflight checks that returned
    command,      \* process_backup's local `command`
    resp,         \* the backup command's child: how often it was started, the
                  \* argument list the tool received, and how it ended
    created,      \* the shell opened the output file for this run
    interrupted,  \* KeyboardInterrupt was raised in the main thread
    wpc,          \* position of the watcher thread
    i,            \* check_hung's iteration counter
    polls,        \* number of poll queries the watcher has run
    c_command,    \* check_hung's poll command
    thread_ids,   \* ids returned by the watcher's most recent successful poll past warm-up
    k,            \* number of ids of thread_ids the kill loop has handled
    processlist,  \* the server's process list as the most recent poll saw it
    killed,       \* ids for which a kill was issued in the current iteration
    kill_command, \* the most recent kill_command_fill
    kill_rc,      \* return code of the most recent kill (-1: none in this iteration)
    failed_kills, \* ids logged as 'Failed to kill thread' in the current iteration
    connect_args, \* check_hung's local connect_args
    env           \* what the host looks like: [competing |-> a matching backup runs]

vars == <<args, platform, fs, pc, exited, exitCode, log, passed, command, resp,
          created, interrupted, wpc, i, polls, c_command, thread_ids, k, processlist,
          killed, kill_command, kill_rc, failed_kills, connect_args, env>>

mainVars == <<args, platform, fs, pc, exited, exitCode, log, passed, command, resp,
              created, interrupted, env>>

watcherVars == <<wpc, i, polls, c_command, thread_ids, k, processlist, killed,
                 kill_command, kill_rc, failed_kills, connect_args>>

(***************************************************************************)
(* Program constants and input bounds.                                     *)
(***************************************************************************)
PollLimit == 180      \* while i < 180
WarmUp == 3           \* ... and i > 3
MaxNames == 1         \* longest --databases / --tables list drawn by Init
MaxSessions == 2      \* most sessions of the backup's user in a process list

Tools == {"mysqldump", "mysqlpump", "mydumper", "xtrabackup"}
StreamTools == {"mydumper", "xtrabackup"}

FTWRL == "FLUSH TABLES WITH READ LOCK"

\* log messages (the fixed part of each logger call)
MsgIncIgnored == "last fullback does not exists, ignore args: --incremental"
MsgNoCommand == "Could not find command"
MsgRunning == "Another backup process is running"
MsgNoConnect == "Could not connect to mysql server"
MsgNoFilter == "We dont suggest use xtrabackup to backup specify databases or tables"
MsgNoLoginPath == "mydumper does not support for args --login-path"
MsgBackupFail == "Could not process backup for mysql server"
MsgDeleting == "Deleting backup file"
MsgDeleted == "Delete success."
MsgSuccess == "Backup success."
MsgPollFail == "Failed to check hang"
MsgKillOk == "Successfully kill thread"
MsgKillFail == "Failed to kill thread"

(***************************************************************************)
(* Pure helpers.                                                           *)
(***************************************************************************)
RECURSIVE Join(_, _)
\* sep.join(names)
Join(names, sep) ==
    IF names = <<>> THEN ""
    ELSE IF Len(names) = 1 THEN names[1]
    ELSE names[1] \o sep \o Join(Tail(names), sep)

Contains(cmd, tok) == \E n \in 1..Len(cmd) : cmd[n] = tok

\* cmd holds the tokens of run, adjacent and in order
HasRun(cmd, run) ==
    \E n \in 1..(Len(cmd) - Len(run) + 1) : SubSeq(cmd, n, n + Len(run) - 1) = run

\* cmd holds flag followed by exactly the tokens of names: the token after them is no name
HasFlagWith(cmd, flag, names, universe) ==
    \E n \in 1..(Len(cmd) - Len(names)) :
        /\ cmd[n] = flag
        /\ SubSeq(cmd, n + 1, n + Len(names)) = names
        /\ (n + Len(names) + 1 <= Len(cmd) => cmd[n + Len(names) + 1] \notin universe)

(***************************************************************************)
(* get_connect_args. config_login_path only talks to mysql_config_editor   *)
(* and changes nothing the program reads back.                             *)
(***************************************************************************)
get_connect_args(a) ==
    (IF a.config # "" THEN <<"--defaults-file=" \o a.config>> ELSE <<>>)
    \o (IF a.socket # "" THEN <<"--socket=" \o a.socket>> ELSE <<>>)
    \o (IF a.login_path # ""
        THEN <<"--login-path=" \o a.login_path>>
        ELSE <<"--host=" \o a.host, "--port=" \o a.port, "--user=" \o a.user>>)

(***************************************************************************)
(* add_extra_args: the flags appended to args.extra.                       *)
(***************************************************************************)
add_extra_args(a) ==
    \* "".join(args.extra): the pieces given after --extra become one string
    (IF a.extra = <<>> THEN <<>> ELSE <<Join(a.extra, "")>>)
    \o (IF a.tool \in {"mysqldump", "mysqlpump"} /\ a.just_insert
        THEN <<"--skip-add-drop-table", "--skip-add-locks", "--no-create-info">>
        ELSE <<>>)
    \o (IF a.tool \in {"mysqldump", "mysqlpump", "mydumper"} /\ a.no_data
        THEN IF a.tool = "mysqldump"
             THEN <<"--no-data", "--skip-lock-tables", "--skip-add-drop-database",
                    "--skip-add-drop-table", "--skip-add-drop-trigger">>
             ELSE IF a.tool = "mysqlpump"
             THEN <<"--skip-dump-rows">>
             ELSE <<"--no-data", "--no-locks">>
        ELSE <<>>)

(***************************************************************************)
(* add_filter_args: [exit |-> sys.exit(1) was called, filter_args |-> ...] *)
(***************************************************************************)
\* a faulty variant of unsupported_filter: xtrabackup ignores the filter options
unsupported_filter_ignored(a) == FALSE

\* the branches that log the error and call sys.exit(1)
unsupported_filter(a) ==
    a.tool \notin {"mysqldump", "mysqlpump", "mydumper"}
        /\ (a.databases # <<>> \/ a.tables # <<>>)

add_filter_args(a) ==
    LET dbs == IF a.databases = <<>> THEN <<>>
               ELSE IF a.tool = "mysqldump" THEN <<"--databases">> \o a.databases
               ELSE IF a.tool = "mysqlpump" THEN <<"--include-databases">> \o a.databases
               ELSE IF a.tool = "mydumper"
               THEN <<"--regex", "'" \o Join(a.databases, "\\.|") \o "\\.'">>
               ELSE <<>>
        tbs == IF a.tables = <<>> THEN <<>>
               ELSE IF a.tool = "mysqldump" THEN <<"--tables">> \o a.tables
               ELSE IF a.tool = "mysqlpump" THEN <<"--include-tables">> \o a.tables
               ELSE IF a.tool = "mydumper" THEN <<"--tables-list", Join(a.tables, ",")>>
               ELSE <<>>
    IN  [exit |-> unsupported_filter(a),
         filter_args |-> IF a.databases = <<>> /\ a.tables = <<>>
                         THEN <<"--all-databases">>
                         ELSE dbs \o tbs]

(***************************************************************************)
(* parse_mysql_args_from_command_line: the default name of the output file *)
(***************************************************************************)
backup_file_suffix(a, checkpoint) ==
    IF a.tool = "xtrabackup"
    THEN IF a.incremental /\ checkpoint # "" THEN "incremental.xb" ELSE "fullback.xb"
    ELSE IF a.tool = "mydumper" THEN "stream"
    ELSE "sql.lz4"

default_backup_file(a, checkpoint) ==
    a.backup_dir \o "/" \o a.host \o "_" \o a.port \o "_" \o a.tool \o "_20241226_000000."
        \o backup_file_suffix(a, checkpoint)

\* the warning of the branch that names the output file
incremental_warning(a, checkpoint) ==
    IF a.backup_file = "" /\ a.tool = "xtrabackup" /\ a.incremental /\ checkpoint = ""
    THEN {MsgIncIgnored}
    ELSE {}

(***************************************************************************)
(* process_backup: the command string, from the namespace as it is when    *)
(* `command` is first assigned (args.extra is read there, before the       *)
(* incremental branch appends to it).                                      *)
(***************************************************************************)
tmp_dir(a) == a.backup_dir \o "/tmp"
history_dir(a) == a.backup_dir \o "/history"

build_command(a, filter_args) ==
    LET base == <<a.tool>> \o get_connect_args(a) \o a.extra
    IN  IF a.tool = "mysqldump"
        THEN base
             \o <<"--master-data=2", "--single-transaction", "--set-gtid-purged=AUTO",
                  "--skip-tz-utc", "--complete-insert", "--hex-blob",
                  "--default-character-set", "utf8mb4", "--routines", "--events",
                  "--triggers", "--add-drop-table", "--max-allowed-packet=256M",
                  "--log-error=" \o a.backup_log>>
             \o filter_args
             \o <<"|", "lz4", "-z", "-9", "-c", ">", a.backup_file>>
        ELSE IF a.tool = "mysqlpump"
        THEN base
             \o <<"--default-parallelism=" \o a.threads, "--single-transaction",
                  "--set-gtid-purged=ON", "--skip-tz-utc", "--add-drop-table",
                  "--complete-insert", "--extended-insert=1000", "--hex-blob",
                  "--default-character-set", "utf8mb4", "--routines", "--events",
                  "--triggers", "--log-error-file=" \o a.backup_log>>
             \o filter_args
             \o <<"|", "lz4", "-z", "-9", "-c", ">", a.backup_file>>
        ELSE IF a.tool = "mydumper"
        THEN base
             \o <<"--threads", a.threads, "--trx-consistency-only", "--use-savepoints",
                  "--triggers", "--events", "--routines", "--skip-definer", "--compress",
                  "--rows", "100000", "--skip-tz-utc", "--complete-insert", "--set-names",
                  "utf8mb4", "--disk-limits", "1024:4096", "--logfile", a.backup_log,
                  "-v", "3", "--stream", "-o", tmp_dir(a), ">", a.backup_file>>
        ELSE base
             \o (IF a.login_path = "" THEN <<"--password=$MYSQL_PWD">> ELSE <<>>)
             \o <<"--backup", "--stream=xbstream", "--compress",
                  "--compress-threads=" \o a.threads, "--parallel=" \o a.threads,
                  "--target-dir=" \o a.backup_dir, "--tmpdir=" \o tmp_dir(a),
                  "--extra-lsndir=" \o history_dir(a),
                  "2>>" \o a.backup_log, "1>" \o a.backup_file>>

\* args.extra after the incremental branch: the LSN grep'd from the checkpoint file
\* (the newline that ends grep's output is left out of the token)
extra_after_build(a, checkpoint) ==
    IF a.tool = "xtrabackup" /\ a.incremental /\ checkpoint # ""
    THEN a.extra \o <<"--incremental-lsn=" \o checkpoint>>
    ELSE a.extra

(***************************************************************************)
(* What the shell makes of the command: sh expands a word that refers to   *)
(* $MYSQL_PWD from the environment delegator.run was given (cmd.exe on     *)
(* Windows does not), and the tool receives the words of the first stage,  *)
(* up to the pipe or redirection.                                          *)
(***************************************************************************)
shell_expand(tok, environ, plat) ==
    IF tok = "--password=$MYSQL_PWD" /\ plat # "Windows"
    THEN "--password=" \o environ.MYSQL_PWD
    ELSE tok

is_shell_operator(tok, a) ==
    tok \in {"|", ">", "2>>" \o a.backup_log, "1>" \o a.backup_file}

RECURSIVE tool_argv(_, _, _, _)
tool_argv(cmd, a, environ, plat) ==
    IF cmd = <<>> \/ is_shell_operator(cmd[1], a) THEN <<>>
    ELSE <<shell_expand(cmd[1], environ, plat)>> \o tool_argv(Tail(cmd), a, environ, plat)

(***************************************************************************)
(* What the shell returns for the command: the status of a pipeline is the *)
(* status of its last stage, and a redirection that cannot be opened fails *)
(* the command.                                                            *)
(***************************************************************************)
shell_status(tool, opened, tool_rc, lz4_rc) ==
    IF ~opened THEN 1
    ELSE IF tool \in {"mysqldump", "mysqlpump"} THEN lz4_rc
    ELSE tool_rc

(***************************************************************************)
(* pre_backup line 311: on every platform but Windows the scan command has *)
(* an unbalanced quote, so the shell rejects it whatever is running; on    *)
(* Windows findstr returns 0 when it finds the program.                    *)
(***************************************************************************)
scan_return_code(plat, competing) ==
    IF plat = "Windows"
    THEN IF competing THEN 0 ELSE 1
    ELSE 2

(***************************************************************************)
(* Initial states: the namespace argparse hands to                          *)
(* parse_mysql_args_from_command_line, with the tool name already          *)
(* normalised, and the host the program runs on.                           *)
(***************************************************************************)
DbPool == <<"app", "shop">>
TablePool == <<"t1", "t2">>
DbNames == {DbPool[n] : n \in 1..Len(DbPool)}
TableNames == {TablePool[n] : n \in 1..Len(TablePool)}

Min(a, b) == IF a < b THEN a ELSE b

\* the prefixes of pool of length at most n
NameLists(pool, n) == {SubSeq(pool, 1, m) : m \in 0..Min(n, Len(pool))}

LSNs == {"12345"}
ExplicitFile == "/data/manual/backup.out"

InitWith(dbLists, tableLists, backupFiles, loginPaths, platforms, competings, extras, flags) ==
    /\ \E tool \in Tools, databases \in dbLists, tables \in tableLists,
          incremental \in BOOLEAN, backup_file \in backupFiles,
          login_path \in loginPaths, extra \in extras,
          just_insert \in flags, no_data \in flags :
            args = [tool |-> tool, host |-> "localhost", port |-> "3306",
                    user |-> "root", password |-> "secret", login_path |-> login_path,
                    config |-> "", socket |-> "", databases |-> databases,
                    tables |-> tables, extra |-> extra, incremental |-> incremental,
                    just_insert |-> just_insert, no_data |-> no_data, threads |-> "3",
                    backup_dir |-> "/data/backups/mysql3306",
                    backup_file |-> backup_file,
                    backup_log |-> "logs/process_mysql_backup.log"]
    /\ platform \in platforms
    /\ \E checkpoint \in {""} \cup LSNs, existing \in BOOLEAN :
            fs = [backup_file |-> existing /\ args.backup_file # "",
                  tmp_dir |-> FALSE, tmp_files |-> FALSE,
                  history_dir |-> checkpoint # "",
                  checkpoint |-> checkpoint]
    /\ env \in [competing : competings]
    /\ pc = "parse"
    /\ exited = FALSE
    /\ exitCode = 0
    /\ log = {}
    /\ passed = {}
    /\ command = <<>>
    /\ resp = [ran |-> FALSE, runs |-> 0, argv |-> <<>>, returned |-> FALSE,
               return_code |-> 0, tool_rc |-> 0]
    /\ created = FALSE
    /\ interrupted = FALSE
    /\ wpc = "idle"
    /\ i = 0
    /\ polls = 0
    /\ c_command = <<>>
    /\ thread_ids = <<>>
    /\ k = 0
    /\ processlist = <<>>
    /\ killed = <<>>
    /\ kill_command = <<>>
    /\ kill_rc = -1
    /\ failed_kills = <<>>
    /\ connect_args = <<>>

(***************************************************************************)
(* The main thread.                                                        *)
(***************************************************************************)
\* sys.exit(code) in the main thread, or an exception nothing catches
Exit(code, msgs) ==
    /\ exited' = TRUE
    /\ exitCode' = code
    /\ pc' = "exited"
    /\ log' = log \cup msgs

\* parse_mysql_args_from_command_line, from the normalised tool name on
ParseArgs ==
    /\ pc = "parse" /\ ~exited
    /\ IF args.tool = "mydumper" /\ args.login_path # ""
       THEN /\ Exit(1, {MsgNoLoginPath})
            /\ UNCHANGED args
       ELSE /\ args' = [args EXCEPT !.backup_file =
                            IF args.backup_file = ""
                            THEN default_backup_file(args, fs.checkpoint)
                            ELSE args.backup_file]
            /\ log' = log \cup incremental_warning(args, fs.checkpoint)
            /\ pc' = "add_extra_args"
            /\ UNCHANGED <<exited, exitCode>>
    /\ UNCHANGED <<platform, fs, passed, command, resp, created, interrupted, env>>
    /\ UNCHANGED watcherVars

\* main: add_extra_args(args)
AddExtraArgs ==
    /\ pc = "add_extra_args" /\ ~exited
    /\ args' = [args EXCEPT !.extra = add_extra_args(args)]
    /\ pc' = "check_tool"
    /\ UNCHANGED <<platform, fs, exited, exitCode, log, passed, command, resp, created,
                   interrupted, env>>
    /\ UNCHANGED watcherVars

\* check_command(name): `which name`
CheckCommand(at, name, next) ==
    /\ pc = at /\ ~exited
    /\ \E rc \in {0, 1} :
        IF rc # 0
        THEN /\ Exit(1, {MsgNoCommand})
             /\ UNCHANGED passed
        ELSE /\ passed' = passed \cup {name}
             /\ pc' = next
             /\ UNCHANGED <<exited, exitCode, log>>
    /\ UNCHANGED <<args, platform, fs, command, resp, created, interrupted, env>>
    /\ UNCHANGED watcherVars

CheckTool == CheckCommand("check_tool", "tool", "check_lz4")
CheckLz4 == CheckCommand("check_lz4", "lz4", "check_process")

\* pre_backup: check backup process if exists
CheckProcess ==
    /\ pc = "check_process" /\ ~exited
    /\ IF scan_return_code(platform, env.competing) = 0
       THEN /\ Exit(1, {MsgRunning})
            /\ UNCHANGED passed
       ELSE /\ passed' = passed \cup {"process"}
            /\ pc' = "check_connect"
            /\ UNCHANGED <<exited, exitCode, log>>
    /\ UNCHANGED <<args, platform, fs, command, resp, created, interrupted, env>>
    /\ UNCHANGED watcherVars

\* a faulty variant of CheckConnect: the error is logged and pre_backup returns
CheckConnectKeepsGoing ==
    /\ pc = "check_connect" /\ ~exited
    /\ \E rc \in {0, 1} :
        /\ log' = IF rc # 0 THEN log \cup {MsgNoConnect} ELSE log
        /\ passed' = IF rc # 0 THEN passed ELSE passed \cup {"connect"}
    /\ pc' = "start_watcher"
    /\ UNCHANGED <<args, platform, fs, exited, exitCode, command, resp, created,
                   interrupted, env>>
    /\ UNCHANGED watcherVars

\* pre_backup: check connect
CheckConnect ==
    /\ pc = "check_connect" /\ ~exited
    /\ \E rc \in {0, 1} :
        IF rc # 0
        THEN /\ Exit(1, {MsgNoConnect})
             /\ UNCHANGED passed
        ELSE /\ passed' = passed \cup {"connect"}
             /\ pc' = "start_watcher"
             /\ UNCHANGED <<exited, exitCode, log>>
    /\ UNCHANGED <<args, platform, fs, command, resp, created, interrupted, env>>
    /\ UNCHANGED watcherVars

\* main: Thread(target=check_hung, daemon=True).start()
StartWatcher ==
    /\ pc = "start_watcher" /\ ~exited
    /\ wpc = "idle"
    /\ wpc' = "init"
    /\ pc' = "process_backup"
    /\ UNCHANGED <<args, platform, fs, exited, exitCode, log, passed, command, resp,
                   created, interrupted, env>>
    /\ UNCHANGED <<i, polls, c_command, thread_ids, k, processlist, killed,
                   kill_command, kill_rc, failed_kills, connect_args>>

\* process_backup up to the debug print of the command
BuildCommand ==
    /\ pc = "process_backup" /\ ~exited
    /\ LET filter == add_filter_args(args)
           staged == [fs EXCEPT !.tmp_dir = fs.tmp_dir \/ args.tool \in StreamTools]
       IN  IF filter.exit
           THEN /\ Exit(1, {MsgNoFilter})
                /\ fs' = staged
                /\ UNCHANGED <<args, command>>
           ELSE /\ command' = build_command(args, filter.filter_args)
                /\ args' = [args EXCEPT !.extra = extra_after_build(args, fs.checkpoint)]
                /\ fs' = [staged EXCEPT !.history_dir =
                              fs.history_dir \/ args.tool = "xtrabackup"]
                /\ pc' = "run"
                /\ UNCHANGED <<exited, exitCode, log>>
    /\ UNCHANGED <<platform, passed, resp, created, interrupted, env>>
    /\ UNCHANGED watcherVars

\* a faulty variant of delete_fail_backup_file: the unlink is left out
delete_fail_keeps_file(msgs) ==
    /\ fs' = fs
    /\ Exit(1, msgs \cup {MsgDeleting})

\* delete_fail_backup_file: unlink raises FileNotFoundError when the file is not
\* there, which nothing catches; either way the process ends with status 1
delete_fail_backup_file(msgs) ==
    /\ fs' = [fs EXCEPT !.backup_file = FALSE]
    /\ Exit(1, msgs \cup {MsgDeleting} \cup (IF fs.backup_file THEN {MsgDeleted} ELSE {}))

\* delegator.run(command, env=...): the shell starts and opens the redirection
RunCommand ==
    /\ pc = "run" /\ ~exited
    /\ \E opened \in BOOLEAN :
        /\ created' = opened
        /\ fs' = [fs EXCEPT !.backup_file = fs.backup_file \/ opened]
    /\ resp' = [resp EXCEPT !.ran = TRUE, !.runs = resp.runs + 1,
                             !.argv = tool_argv(command, args, [MYSQL_PWD |-> args.password],
                                                platform)]
    /\ pc' = "wait"
    /\ UNCHANGED <<args, platform, exited, exitCode, log, passed, command, interrupted,
                   env>>
    /\ UNCHANGED watcherVars

\* a faulty variant of remove_tmp_dir: the staging directory is left behind
remove_tmp_dir_skipped(f, tool) == f

\* lines 468-469: tmp_dir.rmdir() after a stream tool's command returned 0
remove_tmp_dir(f, tool) ==
    [f EXCEPT !.tmp_dir = f.tmp_dir /\ tool \notin StreamTools]

\* a faulty variant of CommandReturns: a failed command is run once more
CommandReturnsRetries ==
    /\ pc = "wait" /\ ~exited
    /\ \E tool_rc \in {0, 1}, lz4_rc \in {0, 1}, leftover \in BOOLEAN :
        LET rc == shell_status(args.tool, created, tool_rc, lz4_rc)
        IN  /\ resp' = [resp EXCEPT !.returned = TRUE, !.return_code = rc,
                                     !.tool_rc = tool_rc]
            /\ IF rc # 0 /\ resp.runs < 2
               THEN /\ pc' = "run"
                    /\ UNCHANGED <<fs, exited, exitCode, log>>
               ELSE IF rc # 0
               THEN delete_fail_backup_file({MsgBackupFail})
               ELSE IF args.tool \in StreamTools /\ leftover
               THEN /\ Exit(1, {})
                    /\ fs' = [fs EXCEPT !.tmp_files = TRUE]
               ELSE /\ Exit(0, {MsgSuccess})
                    /\ fs' = remove_tmp_dir(fs, args.tool)
    /\ UNCHANGED <<args, platform, passed, command, created, interrupted, env>>
    /\ UNCHANGED watcherVars

\* the command ends; process_backup handles its return code and main returns
CommandReturns ==
    /\ pc = "wait" /\ ~exited
    /\ \E tool_rc \in {0, 1}, lz4_rc \in {0, 1}, leftover \in BOOLEAN :
        LET rc == shell_status(args.tool, created, tool_rc, lz4_rc)
        IN  /\ resp' = [resp EXCEPT !.returned = TRUE, !.return_code = rc,
                                     !.tool_rc = tool_rc]
            /\ IF rc # 0
               THEN delete_fail_backup_file({MsgBackupFail})
               ELSE IF args.tool \in StreamTools /\ leftover
               THEN \* tmp_dir.rmdir() raises OSError on a directory that is not empty
                    /\ Exit(1, {})
                    /\ fs' = [fs EXCEPT !.tmp_files = TRUE]
               ELSE /\ Exit(0, {MsgSuccess})
                    /\ fs' = remove_tmp_dir(fs, args.tool)
    /\ UNCHANGED <<args, platform, passed, command, created, interrupted, env>>
    /\ UNCHANGED watcherVars

\* a faulty variant of KeyboardInterrupt: the handler only logs the exception, and
\* process_backup goes on to its last line
KeyboardInterruptSwallowed ==
    /\ pc = "wait" /\ ~exited
    /\ interrupted' = TRUE
    /\ Exit(0, {MsgSuccess})
    /\ UNCHANGED <<args, platform, fs, passed, command, resp, created, env>>
    /\ UNCHANGED watcherVars

\* KeyboardInterrupt while delegator.run blocks
KeyboardInterrupt ==
    /\ pc = "wait" /\ ~exited
    /\ interrupted' = TRUE
    /\ delete_fail_backup_file({})
    /\ UNCHANGED <<args, platform, passed, command, resp, created, env>>
    /\ UNCHANGED watcherVars

(***************************************************************************)
(* The server's process list and the watcher's query.                      *)
(***************************************************************************)
Session(id, info, user) == [id |-> id, info |-> info, user |-> user]

SessionIds == <<"11", "12", "13", "14">>

\* m sessions of the backup's user in FLUSH TABLES WITH READ LOCK
RECURSIVE OwnLocks(_)
OwnLocks(m) ==
    IF m = 0 THEN <<>>
    ELSE OwnLocks(m - 1) \o <<Session(SessionIds[Min(m, Len(SessionIds))], FTWRL, "root")>>

\* a session of the same user running something else, and another user's lock
Unrelated == <<Session("21", "SELECT 1", "root"), Session("22", FTWRL, "app")>>

ProcessLists == {<<>>} \cup {OwnLocks(m) \o Unrelated : m \in 0..Min(MaxSessions, Len(SessionIds))}

\* a faulty variant of select_id: the condition on user is left out
RECURSIVE select_id_any_user(_, _, _)
select_id_any_user(pl, info, user) ==
    IF pl = <<>> THEN <<>>
    ELSE (IF pl[1].info = info THEN <<pl[1].id>> ELSE <<>>)
         \o select_id_any_user(Tail(pl), info, user)

\* select id from information_schema.processlist where info=... and user=...
RECURSIVE select_id(_, _, _)
select_id(pl, info, user) ==
    IF pl = <<>> THEN <<>>
    ELSE (IF pl[1].info = info /\ pl[1].user = user THEN <<pl[1].id>> ELSE <<>>)
         \o select_id(Tail(pl), info, user)

\* str(out).split('\n') of an output whose every line ends with a newline
split_lines(lines) == lines \o <<"">>

\* list.remove(x): drops the first x
RECURSIVE list_remove(_, _)
list_remove(l, x) ==
    IF l = <<>> THEN <<>>
    ELSE IF l[1] = x THEN Tail(l)
    ELSE <<l[1]>> \o list_remove(Tail(l), x)

hang_query(user) ==
    "select id from information_schema.processlist where info='" \o FTWRL
        \o "' and user='" \o user \o "';"

(***************************************************************************)
(* The watcher thread, check_hung. It runs only while the process lives.   *)
(***************************************************************************)
\* a faulty variant of WatcherAlive: the thread is not a daemon and goes on
\* after the main thread has ended
WatcherOutlivesMain == TRUE

\* Thread(..., daemon=True): the thread runs only as long as the process lives
WatcherAlive == ~exited

\* a faulty variant of kills_allowed: the warm-up ends one iteration early
kills_allowed_early(rc, n) == rc = 0 /\ n >= WarmUp

\* line 259: resp.return_code == 0 and i > 3
kills_allowed(rc, n) == rc = 0 /\ n > WarmUp

\* lines 240-253: the commands are prepared once, from args as it is then
WatcherInit ==
    /\ wpc = "init" /\ WatcherAlive
    /\ connect_args' = get_connect_args(args)
    /\ c_command' = <<"mysql">> \o get_connect_args(args) \o args.extra
                        \o <<"--skip-column-names", "-e", hang_query(args.user)>>
    /\ i' = 1
    /\ wpc' = "poll"
    /\ UNCHANGED <<polls, thread_ids, k, processlist, killed, kill_command, kill_rc,
                   failed_kills>>
    /\ UNCHANGED mainVars

\* what a poll with return code rc and the ids it printed leads to
after_poll(rc, n, ids) ==
    IF kills_allowed(rc, n)
    THEN IF ids = <<>> THEN "sleep" ELSE "kill"
    ELSE IF rc # 0 THEN "dead"
    ELSE "sleep"

\* lines 258-265, 279-281: one poll
Poll ==
    /\ wpc = "poll" /\ WatcherAlive
    /\ \E rc \in {0, 1}, pl \in ProcessLists :
        LET ids == list_remove(split_lines(select_id(pl, FTWRL, args.user)), "")
        IN  /\ processlist' = pl
            /\ thread_ids' = IF kills_allowed(rc, i) THEN ids ELSE <<>>
            /\ wpc' = after_poll(rc, i, ids)
            \* sys.exit(1) in a thread that is not the main one ends that thread only
            /\ log' = IF rc # 0 THEN log \cup {MsgPollFail} ELSE log
    /\ polls' = polls + 1
    /\ k' = 0
    /\ killed' = <<>>
    /\ kill_rc' = -1
    /\ failed_kills' = <<>>
    /\ UNCHANGED <<i, c_command, kill_command, connect_args>>
    /\ UNCHANGED <<args, platform, fs, pc, exited, exitCode, passed, command, resp,
                   created, interrupted, env>>

\* a faulty variant of after_kill: a failed kill ends the watcher
after_kill_fatal(rc, n, ids) ==
    IF rc # 0 THEN "dead"
    ELSE IF n < Len(ids) THEN "kill" ELSE "sleep"

\* lines 266, 275-278: the kill's return code only chooses the message; the for
\* loop goes on to the next id, and after the last one to the end of the iteration
after_kill(rc, n, ids) ==
    IF n < Len(ids) THEN "kill" ELSE "sleep"

\* lines 266-278: one turn of the for loop
Kill ==
    /\ wpc = "kill" /\ WatcherAlive
    /\ k < Len(thread_ids)
    /\ \E rc \in {0, 1} :
        /\ kill_rc' = rc
        /\ failed_kills' = IF rc # 0 THEN Append(failed_kills, thread_ids[k + 1])
                                     ELSE failed_kills
        /\ wpc' = after_kill(rc, k + 1, thread_ids)
    /\ kill_command' = <<"mysql">> \o connect_args \o args.extra
                           \o <<"--skip-column-names", "-e",
                                "kill " \o thread_ids[k + 1] \o ";">>
    /\ killed' = Append(killed, thread_ids[k + 1])
    /\ k' = k + 1
    /\ UNCHANGED <<i, polls, c_command, thread_ids, processlist, connect_args>>
    /\ UNCHANGED mainVars

\* a faulty variant of Sleep: the counter is not advanced
SleepKeepsCounter ==
    /\ wpc = "sleep" /\ WatcherAlive
    /\ i' = i
    /\ wpc' = IF i < PollLimit THEN "poll" ELSE "done"
    /\ thread_ids' = <<>>
    /\ k' = 0
    /\ processlist' = <<>>
    /\ killed' = <<>>
    /\ kill_command' = <<>>
    /\ kill_rc' = -1
    /\ failed_kills' = <<>>
    /\ UNCHANGED <<polls, c_command, connect_args>>
    /\ UNCHANGED mainVars

\* lines 282-283 and the loop test; the iteration's locals are dead from here on
Sleep ==
    /\ wpc = "sleep" /\ WatcherAlive
    /\ i' = i + 1
    /\ wpc' = IF i + 1 < PollLimit THEN "poll" ELSE "done"
    /\ thread_ids' = <<>>
    /\ k' = 0
    /\ processlist' = <<>>
    /\ killed' = <<>>
    /\ kill_command' = <<>>
    /\ kill_rc' = -1
    /\ failed_kills' = <<>>
    /\ UNCHANGED <<polls, c_command, connect_args>>
    /\ UNCHANGED mainVars

(***************************************************************************)
(* Specifications.                                                         *)
(***************************************************************************)
MainNext ==
    \/ ParseArgs
    \/ AddExtraArgs
    \/ CheckTool
    \/ CheckLz4
    \/ CheckProcess
    \/ CheckConnect
    \/ StartWatcher
    \/ BuildCommand
    \/ RunCommand
    \/ CommandReturns
    \/ KeyboardInterrupt

WatcherNext ==
    \/ WatcherInit
    \/ Poll
    \/ Kill
    \/ Sleep

\* the whole program on one host, default output file, no filter
\* and no extra flags
Init ==
    InitWith({<<>>}, {<<>>}, {""}, {""}, {"Linux"}, {FALSE}, {<<>>}, {FALSE})

Next == MainNext \/ WatcherNext

Spec == Init /\ [][Next]_vars

\* every configuration; the behaviours in which the daemon thread, once started,
\* is not scheduled before the process ends (it writes nothing the main flow reads)
InitMain ==
    InitWith(NameLists(DbPool, MaxNames), NameLists(TablePool, MaxNames),
             {"", ExplicitFile}, {"", "backup"}, {"Linux", "Windows"}, BOOLEAN,
             {<<>>, <<"--verbose">>}, BOOLEAN)

SpecMain == InitMain /\ [][MainNext]_vars

(***************************************************************************)
(* Properties.                                                             *)
(***************************************************************************)
PreflightChecks == {"tool", "lz4", "process", "connect"}
PreflightErrors == {MsgNoCommand, MsgRunning, MsgNoConnect}
Executed == resp.ran
WatcherStarted == wpc # "idle"

\* C1: the watcher is started and the backup command is built and executed only
\* after the binary checks, the process scan and the connection check have all
\* returned without error; once one of them has reported its error the process
\* has ended with a non-zero status, the watcher was never started, the command
\* was never executed and the shell never opened the output file.
C1_PreflightFirst ==
    /\ (WatcherStarted \/ Executed \/ created \/ command # <<>>)
          => passed = PreflightChecks
    /\ (log \cap PreflightErrors # {})
          => /\ exited /\ exitCode # 0
             /\ ~WatcherStarted /\ ~Executed /\ ~created

\* C1 witness: the connection check failed after the other checks had passed.
C1_Witness ==
    /\ exited /\ MsgNoConnect \in log
    /\ passed = {"tool", "lz4", "process"}

\* C2: once the backup command has returned a non-zero code the process has
\* ended with a non-zero status, the output file does not exist and
\* 'Backup success.' was not logged.
C2_FailedCommandCleansUp ==
    resp.return_code # 0
        => /\ exited /\ exitCode # 0
           /\ ~fs.backup_file
           /\ MsgSuccess \notin log

\* C2 witness: the command failed after the shell had created the output file.
C2_Witness ==
    /\ resp.return_code # 0 /\ created /\ exited
    /\ MsgDeleted \in log

\* C3: a run in which a poll of the watcher failed never ends with exit status 0
\* or with 'Backup success.' logged.
C3_PollFailureIsFatal ==
    (exited /\ MsgPollFail \in log) => (exitCode # 0 /\ MsgSuccess \notin log)

SessionMatches(s) == s.info = FTWRL /\ s.user = args.user
MatchingIds == {processlist[n].id : n \in {m \in 1..Len(processlist) : SessionMatches(processlist[m])}}
Range(q) == {q[n] : n \in 1..Len(q)}

\* C4: every id the watcher has issued a kill for in the current iteration is one
\* the iteration's poll returned, in the order returned; every id that poll
\* returned belongs to a session the process list showed in FLUSH TABLES WITH
\* READ LOCK for the backup's user; and when the kill loop of an iteration past
\* warm-up is over, the ids killed are exactly the ids of those sessions.
C4_KillsOnlyOwnLocks ==
    /\ k = Len(killed) /\ k <= Len(thread_ids)
    /\ killed = SubSeq(thread_ids, 1, k)
    /\ Range(thread_ids) \subseteq MatchingIds
    /\ (wpc = "sleep" /\ i > WarmUp) => Range(killed) = MatchingIds

\* C4 witness: past warm-up, the poll saw one lock-holding session of the backup's
\* user and two unrelated ones, and the kill loop is over.
C4_Witness ==
    /\ wpc = "sleep" /\ i > WarmUp
    /\ processlist = OwnLocks(1) \o Unrelated
    /\ killed = <<"11">>

\* C5: once the main thread has been interrupted while the command ran, the
\* process has ended with a non-zero status, the output file does not exist and
\* 'Backup success.' was not logged.
C5_InterruptCleansUp ==
    interrupted
        => /\ exited /\ exitCode # 0
           /\ ~fs.backup_file
           /\ MsgSuccess \notin log

\* C5 witness: the interrupt came after the shell had created the output file.
C5_Witness ==
    /\ interrupted /\ created /\ exited
    /\ MsgDeleted \in log

FilterFlags == {"--databases", "--include-databases", "--regex",
                "--tables", "--include-tables", "--tables-list"}

HasDatabaseFilter(cmd, tool, dbs) ==
    IF tool = "mysqldump" THEN HasFlagWith(cmd, "--databases", dbs, DbNames)
    ELSE IF tool = "mysqlpump" THEN HasFlagWith(cmd, "--include-databases", dbs, DbNames)
    ELSE HasRun(cmd, <<"--regex", "'" \o Join(dbs, "\\.|") \o "\\.'">>)

\* C6: for mysqldump, mysqlpump and mydumper with a database filter, the command
\* that was built and executed holds the tool's filter flag with exactly the
\* listed databases.
C6_DatabaseFilterInCommand ==
    (Executed /\ args.databases # <<>> /\ args.tool \in {"mysqldump", "mysqlpump", "mydumper"})
        => HasDatabaseFilter(command, args.tool, args.databases)

\* C7: with xtrabackup and a database or table filter no command is ever built
\* or executed, the output file is never opened, and the process never ends with
\* status 0.
C7_XtrabackupRejectsFilter ==
    (args.tool = "xtrabackup" /\ (args.databases # <<>> \/ args.tables # <<>>))
        => /\ command = <<>> /\ ~Executed /\ ~created
           /\ pc \notin {"run", "wait"}
           /\ (exited => exitCode # 0)
           /\ MsgSuccess \notin log

\* C7 witness: preflight passed and add_filter_args ended the run.
C7_Witness ==
    /\ args.tool = "xtrabackup" /\ args.databases # <<>>
    /\ passed = PreflightChecks
    /\ exited /\ exitCode = 1 /\ MsgNoFilter \in log

\* C8: for every tool, with neither filter set, the command that was built holds
\* --all-databases and no filter flag.
C8_AllDatabasesInCommand ==
    (command # <<>> /\ args.databases = <<>> /\ args.tables = <<>>)
        => /\ Contains(command, "--all-databases")
           /\ \A f \in FilterFlags : ~Contains(command, f)

\* C9: with xtrabackup, --incremental and a checkpoint file whose to_lsn is L, the
\* command that was built and executed holds --incremental-lsn=L.
C9_IncrementalLsnInCommand ==
    (Executed /\ args.tool = "xtrabackup" /\ args.incremental /\ fs.checkpoint # "")
        => Contains(command, "--incremental-lsn=" \o fs.checkpoint)

\* C10: with xtrabackup, --incremental and no checkpoint file, once the command
\* has been executed it holds no --incremental-lsn and the warning has been
\* logged, whether or not the output file was named on the command line.
C10_IncrementalFallbackWarns ==
    (Executed /\ args.tool = "xtrabackup" /\ args.incremental /\ fs.checkpoint = "")
        => /\ \A l \in LSNs : ~Contains(command, "--incremental-lsn=" \o l)
           /\ MsgIncIgnored \in log

\* the words by which a password p can stand in a command or an argument list
Leaks(tokens, p) ==
    \E n \in 1..Len(tokens) : tokens[n] \in {p, "--password=" \o p, "-p" \o p}

\* C11: for every tool and credential mode the password value stands neither in a
\* command string the program has built (backup, poll, kill) nor in the argument
\* list the backup tool has received; it travels in MYSQL_PWD only.
C11_PasswordOnlyInEnvironment ==
    /\ ~Leaks(command, args.password)
    /\ ~Leaks(c_command, args.password)
    /\ ~Leaks(kill_command, args.password)
    /\ ~Leaks(resp.argv, args.password)

\* C12: when the process table holds a running invocation of the same tool with the
\* same connection arguments, the process check does not pass and this run never
\* executes a backup command.
C12_AlreadyRunningStopsRun ==
    env.competing => ("process" \notin passed /\ ~Executed)

\* C13: the backup command is executed at most once in a run, and exactly once when
\* preflight and command building succeeded; a failed, interrupted or successful
\* execution is never followed by another.
C13_CommandRunsOnce ==
    /\ resp.runs <= 1
    /\ (command = <<>> \/ passed # PreflightChecks) => resp.runs = 0
    /\ (pc = "wait" \/ (exited /\ command # <<>>)) => resp.runs = 1
    /\ (resp.returned \/ interrupted) => (exited /\ resp.runs = 1)

\* C13 witness: the command failed, the run has ended, and it was executed once.
C13_Witness ==
    /\ exited /\ resp.returned /\ resp.return_code # 0
    /\ resp.runs = 1

\* C14: the main flow does not wait for the watcher. The step in which the backup
\* command returns is the step in which the process ends, whatever is left of the
\* watcher's iterations, and once the process has ended the watcher does nothing:
\* no poll, no kill, no change of any of its variables.
C14_MainNeverWaitsForWatcher ==
    [][/\ resp.returned' => exited'
       /\ exited => watcherVars' = watcherVars]_vars

\* C14 witness: the command has returned and the process has ended while the
\* watcher was about to poll, with iterations left.
C14_Witness ==
    /\ exited /\ resp.returned
    /\ wpc = "poll" /\ i < PollLimit - 1

\* what is left of the watcher's run: the iterations to come, and within an
\* iteration the poll, the kills of the reported ids, and the pause
PhaseRank ==
    CASE wpc = "idle" -> MaxSessions + 4
      [] wpc = "init" -> MaxSessions + 3
      [] wpc = "poll" -> MaxSessions + 2
      [] wpc = "kill" -> 1 + (Len(thread_ids) - k)
      [] wpc = "sleep" -> 0
      [] OTHER -> 0

WatcherRank ==
    IF wpc \in {"done", "dead"} THEN 0
    ELSE 1 + (PollLimit - i) * (MaxSessions + 5) + PhaseRank

\* C15: the watcher always terminates. It polls once per iteration, the iteration
\* counter goes up by one with each pause, the loop ends by itself when the counter
\* reaches the bound whether or not the backup has finished, so there are fewer
\* polls than the bound; and every step of the watcher brings it closer to
\* its end.
C15_WatcherTerminates ==
    /\ [](/\ polls < PollLimit
          /\ i <= PollLimit
          /\ wpc \in {"poll"} => polls = i - 1
          /\ wpc \in {"kill", "sleep"} => polls = i
          /\ wpc = "done" => i = PollLimit)
    /\ [][watcherVars' # watcherVars => WatcherRank' < WatcherRank]_vars

\* C15 witness: the watcher has come to the end of its loop by itself while the
\* backup command is still running.
C15_Witness ==
    /\ wpc = "done" /\ i = PollLimit
    /\ pc = "wait" /\ ~exited

\* C16: after a failed poll query the partial output file is deleted before the
\* process ends: the process never ends after a failed poll with the output file
\* written by this run still there.
C16_PollFailureCleansUp ==
    (exited /\ MsgPollFail \in log) => ~(created /\ fs.backup_file)

\* the watcher thread has been started and has not yet ended
WatcherRunning == wpc \in {"init", "poll", "kill", "sleep"}

\* C17: the two flows share no mutable state. While the watcher is running the main
\* flow writes nothing of what the watcher reads to build its commands (args, and
\* args.extra in particular), so the arguments of the poll command and of every
\* kill command are the same whatever the interleaving.
C17_NoSharedMutableState ==
    /\ [][WatcherRunning => args' = args]_vars
    /\ [](\A x \in {"--incremental-lsn=" \o l : l \in LSNs} :
            (c_command # <<>> /\ kill_command # <<>>)
                => (Contains(c_command, x) <=> Contains(kill_command, x)))

\* C18: a partial backup never looks complete. Whenever the backup tool itself has
\* failed, also when its output went through the compression stage of a dump
\* pipeline, the run does not report success and the output file is not there when
\* the process has ended.
C18_PartialBackupNeverLooksComplete ==
    (exited /\ resp.returned /\ resp.tool_rc # 0)
        => (MsgSuccess \notin log /\ ~fs.backup_file)

\* C19: no kill during the warm-up. A kill is issued only in the fourth or a later
\* iteration, only after that iteration's poll succeeded and printed at least one
\* id, and only for ids that poll printed; in iterations 1 to 3 nothing is killed
\* and no kill command is built, whatever the polls report.
C19_NoKillDuringWarmUp ==
    /\ (wpc = "kill" \/ killed # <<>> \/ kill_command # <<>> \/ kill_rc # -1)
          => /\ i > WarmUp /\ polls > WarmUp
             /\ thread_ids # <<>>
             /\ MsgPollFail \notin log
             /\ Range(killed) \subseteq Range(thread_ids)
    /\ i <= WarmUp => (thread_ids = <<>> /\ killed = <<>>)

\* C19 witness: a poll of the warm-up has succeeded with sessions of the backup's
\* user in the lock state on the server, and the iteration ends with none killed.
C19_Witness ==
    /\ wpc = "sleep" /\ i = WarmUp
    /\ MatchingIds # {}
    /\ killed = <<>> /\ kill_command = <<>>

\* the backup command of a stream-style tool has returned 0 and the run has ended
StreamRunSucceeded ==
    /\ exited /\ resp.returned /\ resp.return_code = 0
    /\ args.tool \in StreamTools

\* C20 as stated: after a stream-style tool's command returned 0 the staging
\* directory is gone, the output file is kept, success is reported and the exit
\* status is 0.
C20_StreamSuccessAlways ==
    StreamRunSucceeded
        => /\ ~fs.tmp_dir /\ fs.backup_file
           /\ MsgSuccess \in log /\ exitCode = 0

\* C20, amended: after a stream-style tool's command returned 0 the output file is
\* kept; if the staging directory was empty it is gone, success is reported and
\* the exit status is 0; if files were left in it, rmdir fails, the directory
\* stays, success is not reported and the exit status is not 0.
C20_StreamSuccess ==
    StreamRunSucceeded
        => /\ fs.backup_file
           /\ ~fs.tmp_files => (~fs.tmp_dir /\ MsgSuccess \in log /\ exitCode = 0)
           /\ fs.tmp_files => (fs.tmp_dir /\ MsgSuccess \notin log /\ exitCode # 0)

\* C20 witness: a stream-style run has succeeded, its staging directory was empty
\* and has been removed.
C20_Witness ==
    /\ StreamRunSucceeded /\ ~fs.tmp_files
    /\ ~fs.tmp_dir /\ fs.backup_file
    /\ MsgSuccess \in log /\ exitCode = 0

\* C21: a failed kill is not fatal. Whatever a kill returns, the step that issues it
\* ends neither the watcher nor the process and leads to the kill of the next id
\* the poll reported or, after the last one, to the end of the iteration; so after
\* a failed kill every id of the same poll still gets its kill, the ids logged as
\* failed are among those killed, and the watcher goes on to its next iteration.
C21_FailedKillNotFatal ==
    /\ [][Len(killed') > Len(killed)
            => /\ wpc' \in {"kill", "sleep"}
               /\ <<exited', exitCode', pc'>> = <<exited, exitCode, pc>>
               /\ MsgPollFail \notin log']_vars
    /\ [](failed_kills # <<>>
            => /\ wpc \in {"kill", "sleep"}
               /\ Range(failed_kills) \subseteq Range(killed)
               /\ wpc = "kill" => (k < Len(thread_ids) /\ (WatcherAlive => ENABLED Kill))
               /\ wpc = "sleep" => (killed = thread_ids /\ (WatcherAlive => ENABLED Sleep)))
    /\ [][(failed_kills # <<>> /\ wpc = "sleep" /\ wpc' # "sleep")
            => (i' = i + 1 /\ wpc' = IF i' < PollLimit THEN "poll" ELSE "done")]_vars

\* C21 witness: the kill of the first id the poll reported has failed, the second id
\* has been killed all the same, and the watcher is at the end of the iteration with
\* iterations to come.
C21_Witness ==
    /\ wpc = "sleep" /\ i + 1 < PollLimit /\ ~exited
    /\ Len(thread_ids) = 2 /\ killed = thread_ids
    /\ failed_kills = <<thread_ids[1]>>
    /\ kill_rc = 0

====
